---- MODULE Spec2Model ----
(***************************************************************************)
(* Buffer classification (processMtpBuffer, processLocalBuffer), the       *)
(* sanitizer (sanitizeErrors) and the local data source's deleteFiles      *)
(* loop of openmtp.                                                        *)
(*                                                                         *)
(* A JavaScript string is a sequence of one-character strings; null is the *)
(* record Null, a string value is Str(chars).                              *)
(***************************************************************************)
EXTENDS Integers, Sequences, FiniteSets, TLC

VARIABLES
  error,      \* classifier argument `error`
  stderr,     \* classifier argument `stderr`
  result,     \* object returned by the last classifier call (Undefined: none)
  threw,      \* the classifier call ended with an uncaught TypeError
  logs,       \* arguments of the log.doLog calls made by the classifier call
  matched,    \* errorTpl key whose checkError selected the branch taken
  string,     \* sanitizer input
  once,       \* sanitizeErrors(string)
  twice,      \* sanitizeErrors(sanitizeErrors(string))
  fileList,   \* deleteFiles argument
  i,          \* deleteFiles loop index (0-based, as in the source)
  calls,      \* indices of fileList handed to _delete, in call order
  outcomes,   \* what each _delete call reported, in call order
  response,   \* object returned by deleteFiles (Undefined: not yet)
  pc          \* position of the running call

vars == <<error, stderr, result, threw, logs, matched, string, once, twice,
          fileList, i, calls, outcomes, response, pc>>

classifierVars == <<error, stderr, result, threw, logs, matched>>
sanitizerVars == <<string, once, twice>>
deleteVars == <<fileList, i, calls, outcomes, response>>

\* ------------------------------------------------------------------------
\* JavaScript values and string primitives

Null == [type |-> "null"]
Undefined == [type |-> "undefined"]
Str(chars) == [type |-> "string", chars |-> chars]

LowerCaseLetters ==
  <<"a","b","c","d","e","f","g","h","i","j","k","l","m","n","o","p","q","r","s","t","u","v","w","x","y","z">>
UpperCaseLetters ==
  <<"A","B","C","D","E","F","G","H","I","J","K","L","M","N","O","P","Q","R","S","T","U","V","W","X","Y","Z">>

LowerCaseOf ==
  [c \in {UpperCaseLetters[k] : k \in 1..26} |->
     LowerCaseLetters[CHOOSE k \in 1..26 : UpperCaseLetters[k] = c]]
UpperCaseOf ==
  [c \in {LowerCaseLetters[k] : k \in 1..26} |->
     UpperCaseLetters[CHOOSE k \in 1..26 : LowerCaseLetters[k] = c]]

\* String.prototype.toLowerCase / toUpperCase on one character
charToLowerCase(c) == IF c \in DOMAIN LowerCaseOf THEN LowerCaseOf[c] ELSE c
charToUpperCase(c) == IF c \in DOMAIN UpperCaseOf THEN UpperCaseOf[c] ELSE c

toLowerCase(s) == [k \in 1..Len(s) |-> charToLowerCase(s[k])]

\* s.indexOf(p, from) = at: p occurs in s at 1-based position at
startsWithAt(s, p, at) ==
  /\ at + Len(p) - 1 <= Len(s)
  /\ \A k \in 1..Len(p) : s[at + k - 1] = p[k]

\* s.indexOf(p) !== -1
includes(s, p) == \E at \in 1..(Len(s) + 1) : startsWithAt(s, p, at)

WhiteSpace == {" ", "\t", "\n", "\r"}

RECURSIVE trimStart(_)
trimStart(s) ==
  IF s # <<>> /\ Head(s) \in WhiteSpace THEN trimStart(Tail(s)) ELSE s

RECURSIVE trimEnd(_)
trimEnd(s) ==
  IF s # <<>> /\ s[Len(s)] \in WhiteSpace
    THEN trimEnd(SubSeq(s, 1, Len(s) - 1))
    ELSE s

\* String.prototype.trim
trim(s) == trimEnd(trimStart(s))

\* ------------------------------------------------------------------------
\* Sanitizer

sanitizeFallback ==
  <<"O","o","p","s",".","."," ","T","r","y"," ","a","g","a","i","n">>
errorPrefix ==
  <<"e","r","r","o","r",":"," ">>
sanitizeFind ==
  << <<"e","r","r","o","r",":">>,
     <<"s","t","a","t"," ","f","a","i","l","e","d",":">> >>
sanitizeReplace == << <<>>, <<>> >>

\* index of the first entry of findArray occurring in str at `at` (0: none);
\* the alternation built from findArray tries its entries in array order
firstFindAt(str, findArray, at) ==
  IF \E k \in 1..Len(findArray) : startsWithAt(str, findArray[k], at)
    THEN CHOOSE k \in 1..Len(findArray) :
           /\ startsWithAt(str, findArray[k], at)
           /\ \A j \in 1..(k - 1) : ~startsWithAt(str, findArray[j], at)
    ELSE 0

RECURSIVE replaceFrom(_, _, _, _)
replaceFrom(str, findArray, replaceArray, at) ==
  IF at > Len(str) THEN <<>>
  ELSE LET k == firstFindAt(str, findArray, at)
       IN IF k = 0
            THEN <<str[at]>> \o replaceFrom(str, findArray, replaceArray, at + 1)
            ELSE replaceArray[k] \o
                 replaceFrom(str, findArray, replaceArray,
                             at + Len(findArray[k]))

\* utils/funcs replaceBulk: every occurrence of a findArray entry, found in one
\* left-to-right pass over str, is replaced by the replaceArray entry
replaceBulk(str, findArray, replaceArray) ==
  replaceFrom(str, findArray, replaceArray, 1)

\* string.replace(/^(error: )/, '')
stripErrorPrefix(s) ==
  IF startsWithAt(s, errorPrefix, 1)
    THEN SubSeq(s, Len(errorPrefix) + 1, Len(s))
    ELSE s

\* string.charAt(0).toUpperCase() + string.slice(1)
upperFirst(s) ==
  IF s = <<>> THEN <<>> ELSE <<charToUpperCase(s[1])>> \o Tail(s)

\* sanitizeErrors without the trim that follows replaceBulk
sanitizeErrorsNoFinalTrim(v) ==
  IF v = Null THEN Str(sanitizeFallback)
  ELSE LET stripped == trim(stripErrorPrefix(v.chars))
           replaced == replaceBulk(stripped, sanitizeFind, sanitizeReplace)
       IN Str(upperFirst(replaced))

\* sanitizeErrors(string)
sanitizeErrors(v) ==
  IF v = Null THEN Str(sanitizeFallback)
  ELSE LET stripped == trim(stripErrorPrefix(v.chars))
           replaced == trim(replaceBulk(stripped, sanitizeFind, sanitizeReplace))
       IN Str(upperFirst(replaced))

\* ------------------------------------------------------------------------
\* Buffer classifiers

mtpErrorTpl ==
  [ noMtp |->
      <<"N","o"," ","M","T","P"," ","d","e","v","i","c","e"," ","f","o","u","n","d">>,
    invalidObjectHandle |->
      <<"i","n","v","a","l","i","d"," ","r","e","s","p","o","n","s","e"," ","c","o","d","e"," ","I","n","v","a","l","i","d","O","b","j","e","c","t","H","a","n","d","l","e">>,
    invalidStorageID |->
      <<"i","n","v","a","l","i","d"," ","r","e","s","p","o","n","s","e"," ","c","o","d","e"," ","I","n","v","a","l","i","d","S","t","o","r","a","g","e","I","D">>,
    fileNotFound |->
      <<"c","o","u","l","d"," ","n","o","t"," ","f","i","n","d">>,
    noFilesSelected |->
      <<"N","o"," ","f","i","l","e","s"," ","s","e","l","e","c","t","e","d">>,
    invalidPath |->
      <<"I","n","v","a","l","i","d"," ","p","a","t","h">>,
    noSuchFiles |->
      <<"N","o"," ","s","u","c","h"," ","f","i","l","e"," ","o","r"," ","d","i","r","e","c","t","o","r","y">>,
    writePipe |->
      <<"W","r","i","t","e","P","i","p","e">>,
    mtpStorageNotAccessible1 |->
      <<"M","T","P"," ","s","t","o","r","a","g","e"," ","n","o","t"," ","a","c","c","e","s","s","i","b","l","e">>,
    mtpStorageNotAccessible2 |->
      <<"e","r","r","o","r",":"," ","s","t","o","r","a","g","e">>,
    partialDeletion |->
      <<"P","a","r","t","i","a","l","D","e","l","e","t","i","o","n">> ]

mtpErrorDictionary ==
  [ noMtp |->
      <<"N","o"," ","M","T","P"," ","d","e","v","i","c","e"," ","f","o","u","n","d",".">>,
    common |->
      <<"O","o","p","s",".","."," ","Y","o","u","r"," ","M","T","P"," ","d","e","v","i","c","e"," ","h","a","s"," ","g","o","n","e"," ","c","r","a","z","y","!"," ","T","r","y"," ","a","g","a","i","n",".">>,
    unResponsive |->
      <<"M","T","P"," ","d","e","v","i","c","e"," ","i","s"," ","n","o","t"," ","r","e","s","p","o","n","d","i","n","g","."," ","R","e","l","o","a","d"," ","o","r"," ","r","e","c","o","n","n","e","c","t"," ","d","e","v","i","c","e",".">>,
    mtpStorageNotAccessible |->
      <<"M","T","P"," ","s","t","o","r","a","g","e"," ","n","o","t"," ","a","c","c","e","s","s","i","b","l","e",".">>,
    fileNotFound |->
      <<"F","i","l","e"," ","n","o","t"," ","f","o","u","n","d","!"," ","T","r","y"," ","a","g","a","i","n",".">>,
    partialDeletion |->
      <<"T","h","e"," ","p","a","t","h"," ","i","s"," ","i","n","a","c","c","e","s","s","i","b","l","e",".">> ]

localErrorTpl ==
  [ noPerm1 |->
      <<"O","p","e","r","a","t","i","o","n"," ","n","o","t"," ","p","e","r","m","i","t","t","e","d">>,
    noPerm2 |->
      <<"P","e","r","m","i","s","s","i","o","n"," ","d","e","n","i","e","d">>,
    commandFailed |->
      <<"C","o","m","m","a","n","d"," ","f","a","i","l","e","d">>,
    noSuchFiles |->
      <<"N","o"," ","s","u","c","h"," ","f","i","l","e"," ","o","r"," ","d","i","r","e","c","t","o","r","y">> ]

localErrorDictionary ==
  [ noPerm |->
      <<"O","p","e","r","a","t","i","o","n"," ","n","o","t"," ","p","e","r","m","i","t","t","e","d",".">>,
    commandFailed |->
      <<"C","o","u","l","d"," ","n","o","t"," ","c","o","m","p","l","e","t","e","!"," ","T","r","y"," ","a","g","a","i","n",".">>,
    common |->
      <<"O","o","p","s",".","."," ","Y","o","u","r"," ","d","e","v","i","c","e"," ","h","a","s"," ","g","o","n","e"," ","c","r","a","z","y","!"," ","T","r","y"," ","a","g","a","i","n",".">>,
    unResponsive |->
      <<"D","e","v","i","c","e"," ","i","s"," ","n","o","t"," ","r","e","s","p","o","n","d","i","n","g","!"," ","R","e","l","o","a","d">>,
    invalidPath |->
      <<"I","n","v","a","l","i","d"," ","p","a","t","h">>,
    fileNotFound |->
      <<"F","i","l","e"," ","n","o","t"," ","f","o","u","n","d","!"," ","T","r","y"," ","a","g","a","i","n",".">> ]

\* String(v): null becomes the text "null"
stringifiedNullAsText(v) ==
  IF v = Null THEN <<"n","u","l","l">> ELSE v.chars

\* (v !== null && v.toString()) || ''
stringified(v) == IF v = Null THEN <<>> ELSE v.chars

\* checkError without the toLowerCase calls
checkErrorCaseSensitive(errorTpl, key, errorStringified, stderrStringified) ==
  \/ includes(stderrStringified, errorTpl[key])
  \/ includes(errorStringified, errorTpl[key])

\* checkError looking at stderr alone
checkErrorStderrOnly(errorTpl, key, errorStringified, stderrStringified) ==
  includes(toLowerCase(stderrStringified), toLowerCase(errorTpl[key]))

\* checkError(errorTplKey) of either classifier, for a key errorTpl holds
checkError(errorTpl, key, errorStringified, stderrStringified) ==
  \/ includes(toLowerCase(stderrStringified), toLowerCase(errorTpl[key]))
  \/ includes(toLowerCase(errorStringified), toLowerCase(errorTpl[key]))

\* the template literal handed to log.doLog, kept as its three parts
logMessage(tag, errorStringified, stderrStringified) ==
  [tag |-> tag, error |-> trim(errorStringified),
   stderr |-> trim(stderrStringified)]

\* one run of a classifier: what it returned (or that it threw), the
\* log.doLog calls it made and the errorTpl key that selected its branch
Returned(obj, key, logged) ==
  [result |-> obj, threw |-> FALSE, logs |-> logged, matched |-> key]
Thrown(key, logged) ==
  [result |-> Undefined, threw |-> TRUE, logs |-> logged, matched |-> key]

\* errorStringified || stderrStringified
rawTextErrorFirst(errorStringified, stderrStringified) ==
  IF errorStringified # <<>> THEN errorStringified ELSE stderrStringified

\* stderrStringified || errorStringified
rawText(errorStringified, stderrStringified) ==
  IF stderrStringified # <<>> THEN stderrStringified ELSE errorStringified

\* log.doLog(message, noMtpError): the loud flag the wrong way round
mtpDoLogLoudOnNoMtp(errorStringified, stderrStringified, noMtpError) ==
  [message |-> logMessage("MTP buffer o/p logging;",
                          errorStringified, stderrStringified),
   loud |-> noMtpError]

\* the arguments of processMtpBuffer's log.doLog(message, !noMtpError)
mtpDoLog(errorStringified, stderrStringified, noMtpError) ==
  [message |-> logMessage("MTP buffer o/p logging;",
                          errorStringified, stderrStringified),
   loud |-> ~noMtpError]

\* processMtpBuffer testing fileNotFound where errorTpl declares it, before
\* writePipe and the storage entries
processMtpBufferFileNotFoundEarly(e, s) ==
  LET errorStringified == stringified(e)
      stderrStringified == stringified(s)
      check(key) ==
        checkError(mtpErrorTpl, key, errorStringified, stderrStringified)
      noMtpError == check("noMtp")
      logged == <<mtpDoLog(errorStringified, stderrStringified, noMtpError)>>
      raw == rawText(errorStringified, stderrStringified)
      dict == mtpErrorDictionary
  IN
  IF errorStringified = <<>> /\ stderrStringified = <<>> THEN
    Returned([error |-> Null, throwAlert |-> FALSE, logError |-> TRUE,
              status |-> TRUE], "none", <<>>)
  ELSE IF noMtpError THEN
    Returned([error |-> Str(dict.noMtp), throwAlert |-> FALSE,
              logError |-> FALSE, status |-> FALSE], "noMtp", logged)
  ELSE IF check("invalidObjectHandle") THEN
    Returned([error |-> Str(dict.unResponsive), throwAlert |-> TRUE,
              logError |-> TRUE, status |-> FALSE],
             "invalidObjectHandle", logged)
  ELSE IF check("invalidStorageID") THEN
    Returned([error |-> Str(dict.unResponsive), throwAlert |-> TRUE,
              logError |-> TRUE, status |-> FALSE],
             "invalidStorageID", logged)
  ELSE IF check("fileNotFound") THEN
    Returned([error |-> sanitizeErrors(Str(raw)), throwAlert |-> TRUE,
              logError |-> TRUE, status |-> TRUE], "fileNotFound", logged)
  ELSE IF check("writePipe") THEN
    Returned([error |-> Str(dict.unResponsive), throwAlert |-> TRUE,
              logError |-> TRUE, status |-> FALSE], "writePipe", logged)
  ELSE IF check("mtpStorageNotAccessible1")
          \/ check("mtpStorageNotAccessible2") THEN
    Returned([error |-> Str(dict.mtpStorageNotAccessible),
              throwAlert |-> TRUE, logError |-> TRUE, status |-> FALSE],
             IF check("mtpStorageNotAccessible1")
               THEN "mtpStorageNotAccessible1"
               ELSE "mtpStorageNotAccessible2",
             logged)
  ELSE IF check("noSuchFiles") THEN
    Returned([error |-> Str(dict.fileNotFound), throwAlert |-> TRUE,
              logError |-> TRUE, status |-> TRUE], "noSuchFiles", logged)
  ELSE IF check("noFilesSelected") \/ check("invalidPath") THEN
    Returned([error |-> sanitizeErrors(Str(raw)), throwAlert |-> TRUE,
              logError |-> TRUE, status |-> TRUE],
             IF check("noFilesSelected") THEN "noFilesSelected"
                                         ELSE "invalidPath",
             logged)
  ELSE IF check("partialDeletion") THEN
    Returned([error |-> Str(dict.partialDeletion), throwAlert |-> TRUE,
              logError |-> TRUE, status |-> TRUE], "partialDeletion", logged)
  ELSE
    Returned([error |-> Str(dict.common), throwAlert |-> TRUE,
              logError |-> TRUE, status |-> TRUE], "common", logged)

\* processMtpBuffer({error, stderr})
processMtpBuffer(e, s) ==
  LET errorStringified == stringified(e)
      stderrStringified == stringified(s)
      check(key) ==
        checkError(mtpErrorTpl, key, errorStringified, stderrStringified)
      noMtpError == check("noMtp")
      logged == <<mtpDoLog(errorStringified, stderrStringified, noMtpError)>>
      raw == rawText(errorStringified, stderrStringified)
      dict == mtpErrorDictionary
  IN
  IF errorStringified = <<>> /\ stderrStringified = <<>> THEN
    Returned([error |-> Null, throwAlert |-> FALSE, logError |-> TRUE,
              status |-> TRUE], "none", <<>>)
  ELSE IF noMtpError THEN
    Returned([error |-> Str(dict.noMtp), throwAlert |-> FALSE,
              logError |-> FALSE, status |-> FALSE], "noMtp", logged)
  ELSE IF check("invalidObjectHandle") THEN
    Returned([error |-> Str(dict.unResponsive), throwAlert |-> TRUE,
              logError |-> TRUE, status |-> FALSE],
             "invalidObjectHandle", logged)
  ELSE IF check("invalidStorageID") THEN
    Returned([error |-> Str(dict.unResponsive), throwAlert |-> TRUE,
              logError |-> TRUE, status |-> FALSE],
             "invalidStorageID", logged)
  ELSE IF check("writePipe") THEN
    Returned([error |-> Str(dict.unResponsive), throwAlert |-> TRUE,
              logError |-> TRUE, status |-> FALSE], "writePipe", logged)
  ELSE IF check("mtpStorageNotAccessible1")
          \/ check("mtpStorageNotAccessible2") THEN
    Returned([error |-> Str(dict.mtpStorageNotAccessible),
              throwAlert |-> TRUE, logError |-> TRUE, status |-> FALSE],
             IF check("mtpStorageNotAccessible1")
               THEN "mtpStorageNotAccessible1"
               ELSE "mtpStorageNotAccessible2",
             logged)
  ELSE IF check("fileNotFound") THEN
    Returned([error |-> sanitizeErrors(Str(raw)), throwAlert |-> TRUE,
              logError |-> TRUE, status |-> TRUE], "fileNotFound", logged)
  ELSE IF check("noSuchFiles") THEN
    Returned([error |-> Str(dict.fileNotFound), throwAlert |-> TRUE,
              logError |-> TRUE, status |-> TRUE], "noSuchFiles", logged)
  ELSE IF check("noFilesSelected") \/ check("invalidPath") THEN
    Returned([error |-> sanitizeErrors(Str(raw)), throwAlert |-> TRUE,
              logError |-> TRUE, status |-> TRUE],
             IF check("noFilesSelected") THEN "noFilesSelected"
                                         ELSE "invalidPath",
             logged)
  ELSE IF check("partialDeletion") THEN
    Returned([error |-> Str(dict.partialDeletion), throwAlert |-> TRUE,
              logError |-> TRUE, status |-> TRUE], "partialDeletion", logged)
  ELSE
    Returned([error |-> Str(dict.common), throwAlert |-> TRUE,
              logError |-> TRUE, status |-> TRUE], "common", logged)

\* processLocalBuffer whose NoSuchFile result has no status field
processLocalBufferNoStatus(e, s) ==
  LET errorStringified == stringified(e)
      stderrStringified == stringified(s)
      check(key) ==
        checkError(localErrorTpl, key, errorStringified, stderrStringified)
      logged ==
        << [message |-> logMessage("Local buffer o/p logging;",
                                   errorStringified, stderrStringified)] >>
      dict == localErrorDictionary
  IN
  IF errorStringified = <<>> /\ stderrStringified = <<>> THEN
    Returned([error |-> Null, throwAlert |-> FALSE, logError |-> TRUE],
             "none", <<>>)
  ELSE IF check("noPerm1") \/ check("noPerm2") THEN
    Returned([error |-> Str(dict.noPerm), throwAlert |-> TRUE,
              logError |-> TRUE],
             IF check("noPerm1") THEN "noPerm1" ELSE "noPerm2", logged)
  ELSE IF check("commandFailed") THEN
    Returned([error |-> Str(dict.commandFailed), throwAlert |-> TRUE,
              logError |-> TRUE], "commandFailed", logged)
  ELSE IF check("noSuchFiles") THEN
    Returned([error |-> Str(dict.fileNotFound), throwAlert |-> TRUE,
              logError |-> TRUE], "noSuchFiles", logged)
  ELSE IF "invalidPath" \notin DOMAIN localErrorTpl THEN
    Thrown("invalidPath", logged)
  ELSE IF check("invalidPath") THEN
    Returned([error |-> Str(errorStringified), throwAlert |-> TRUE,
              logError |-> TRUE], "invalidPath", logged)
  ELSE
    Returned([error |-> Str(dict.common), throwAlert |-> TRUE,
              logError |-> TRUE], "common", logged)

\* errorTpl of processLocalBuffer has no invalidPath entry: evaluating
\* errorTpl['invalidPath'].toLowerCase() raises a TypeError, so the run ends
\* there whenever the three branches before it did not return
\* processLocalBuffer({error, stderr})
processLocalBuffer(e, s) ==
  LET errorStringified == stringified(e)
      stderrStringified == stringified(s)
      check(key) ==
        checkError(localErrorTpl, key, errorStringified, stderrStringified)
      logged ==
        << [message |-> logMessage("Local buffer o/p logging;",
                                   errorStringified, stderrStringified)] >>
      dict == localErrorDictionary
  IN
  IF errorStringified = <<>> /\ stderrStringified = <<>> THEN
    Returned([error |-> Null, throwAlert |-> FALSE, logError |-> TRUE],
             "none", <<>>)
  ELSE IF check("noPerm1") \/ check("noPerm2") THEN
    Returned([error |-> Str(dict.noPerm), throwAlert |-> TRUE,
              logError |-> TRUE],
             IF check("noPerm1") THEN "noPerm1" ELSE "noPerm2", logged)
  ELSE IF check("commandFailed") THEN
    Returned([error |-> Str(dict.commandFailed), throwAlert |-> TRUE,
              logError |-> TRUE], "commandFailed", logged)
  ELSE IF check("noSuchFiles") THEN
    Returned([error |-> Str(dict.fileNotFound), throwAlert |-> TRUE,
              logError |-> TRUE, status |-> TRUE], "noSuchFiles", logged)
  ELSE IF "invalidPath" \notin DOMAIN localErrorTpl THEN
    Thrown("invalidPath", logged)
  ELSE IF check("invalidPath") THEN
    Returned([error |-> Str(errorStringified), throwAlert |-> TRUE,
              logError |-> TRUE], "invalidPath", logged)
  ELSE
    Returned([error |-> Str(dict.common), throwAlert |-> TRUE,
              logError |-> TRUE], "common", logged)

\* ------------------------------------------------------------------------
\* Inputs of the classifiers

\* raw texts the two channels produce, joined to build a buffer
Fragments ==
  << <<"N","o"," ","M","T","P"," ","d","e","v","i","c","e"," ","f","o","u","n","d">>,
     <<"i","n","v","a","l","i","d"," ","r","e","s","p","o","n","s","e"," ","c","o","d","e"," ","I","n","v","a","l","i","d","O","b","j","e","c","t","H","a","n","d","l","e">>,
     <<"i","n","v","a","l","i","d"," ","r","e","s","p","o","n","s","e"," ","c","o","d","e"," ","I","n","v","a","l","i","d","S","t","o","r","a","g","e","I","D">>,
     <<"C","o","u","l","d"," ","N","o","t"," ","F","i","n","d">>,
     <<"N","o"," ","f","i","l","e","s"," ","s","e","l","e","c","t","e","d">>,
     <<"I","n","v","a","l","i","d"," ","p","a","t","h">>,
     <<"n","o"," ","s","u","c","h"," ","f","i","l","e"," ","o","r"," ","d","i","r","e","c","t","o","r","y">>,
     <<"W","r","i","t","e","P","i","p","e">>,
     <<"M","T","P"," ","s","t","o","r","a","g","e"," ","n","o","t"," ","a","c","c","e","s","s","i","b","l","e">>,
     <<"e","r","r","o","r",":"," ","s","t","o","r","a","g","e">>,
     <<"P","a","r","t","i","a","l","D","e","l","e","t","i","o","n">>,
     <<"s","t","o","r","a","g","e"," ","n","o","t"," ","a","c","c","e","s","s","i","b","l","e">>,
     <<"p","e","r","m","i","s","s","i","o","n"," ","d","e","n","i","e","d">>,
     <<"O","p","e","r","a","t","i","o","n"," ","n","o","t"," ","p","e","r","m","i","t","t","e","d">>,
     <<"C","o","m","m","a","n","d"," ","f","a","i","l","e","d">>,
     <<"e","r","r","o","r",":"," ">>,
     <<" ">> >>

\* most fragments joined into one buffer
MaxFrags == 2

RECURSIVE join(_, _)
join(fragments, fs) ==
  IF fs = <<>> THEN <<>>
  ELSE fragments[Head(fs)] \o join(fragments, Tail(fs))

\* the texts made of 1..n entries of fragments
Joined(fragments, n) ==
  {join(fragments, fs) : fs \in UNION {[1..k -> 1..Len(fragments)] : k \in 1..n}}

\* a buffer: null, the empty string, or up to n fragments joined
Buffers(n) ==
  {Null, Str(<<>>)} \cup {Str(chars) : chars \in Joined(Fragments, n)}

\* the other buffer of a call: null, empty, or one short text
ShortBuffers ==
  {Null, Str(<<>>), Str(Fragments[4])}

\* texts handed to the sanitizer: pieces of device output around the two
\* substrings it removes
SanitizerFragments ==
  << <<"e","r","r","o","r",":">>,
     <<"e","r","r","o">>,
     <<"r",":">>,
     <<"x">>,
     <<" ">>,
     <<"s","t","a","t"," ","f","a","i","l","e","d",":">>,
     <<"e","r","r","o","r",":"," ">> >>

\* most fragments joined into one sanitizer input
MaxSanitizerFrags == 4

SanitizerInputs ==
  {Null, Str(<<>>)}
    \cup {Str(chars) : chars \in Joined(SanitizerFragments, MaxSanitizerFrags)}

\* ------------------------------------------------------------------------
\* Specification of the classifiers: a call of either function on a buffer

InitClassifier ==
  /\ \/ error \in Buffers(MaxFrags) /\ stderr \in ShortBuffers
     \/ error \in ShortBuffers /\ stderr \in Buffers(MaxFrags)
  /\ result = Undefined
  /\ threw = FALSE
  /\ logs = <<>>
  /\ matched = "none"
  /\ string = Null /\ once = Undefined /\ twice = Undefined
  /\ fileList = Null /\ i = 0 /\ calls = <<>> /\ outcomes = <<>>
  /\ response = Undefined
  /\ pc = "ready"

Finish(run, at) ==
  /\ result' = run.result
  /\ threw' = run.threw
  /\ logs' = run.logs
  /\ matched' = run.matched
  /\ pc' = at
  /\ UNCHANGED <<error, stderr, sanitizerVars, deleteVars>>

CallProcessMtpBuffer ==
  /\ pc = "ready"
  /\ Finish(processMtpBuffer(error, stderr), "mtp")

CallProcessLocalBuffer ==
  /\ pc = "ready"
  /\ Finish(processLocalBuffer(error, stderr), "local")

NextClassifier == CallProcessMtpBuffer \/ CallProcessLocalBuffer

Spec == InitClassifier /\ [][NextClassifier]_vars

\* ------------------------------------------------------------------------
\* Specification of the sanitizer: sanitizeErrors applied once, then again
\* to its own output

InitSanitizer ==
  /\ string \in SanitizerInputs
  /\ once = Undefined /\ twice = Undefined
  /\ error = Null /\ stderr = Null /\ result = Undefined /\ threw = FALSE
  /\ logs = <<>> /\ matched = "none"
  /\ fileList = Null /\ i = 0 /\ calls = <<>> /\ outcomes = <<>>
  /\ response = Undefined
  /\ pc = "ready"

CallSanitizeErrors ==
  /\ pc = "ready"
  /\ once' = sanitizeErrors(string)
  /\ pc' = "once"
  /\ UNCHANGED <<string, twice, classifierVars, deleteVars>>

CallSanitizeErrorsAgain ==
  /\ pc = "once"
  /\ twice' = sanitizeErrors(once)
  /\ pc' = "twice"
  /\ UNCHANGED <<string, once, classifierVars, deleteVars>>

NextSanitizer == CallSanitizeErrors \/ CallSanitizeErrorsAgain

SpecSanitizer == InitSanitizer /\ [][NextSanitizer]_vars

\* ------------------------------------------------------------------------
\* FileExplorerLocalDataSource.deleteFiles

Bool(b) == [type |-> "boolean", value |-> b]

noFilesSelected ==
  <<"N","o"," ","f","i","l","e","s"," ","s","e","l","e","c","t","e","d",".">>

\* paths a fileList names
Files == {"a", "b", "c"}

\* longest fileList
MaxFiles == 3

Array(items) == [type |-> "array", items |-> items]

FileLists ==
  {Null} \cup {Array(items) : items \in UNION {[1..n -> Files] : n \in 0..MaxFiles}}

\* the Error rimraf (or its argument check) produces for a path
ErrorCodes == {"EACCES", "ENOTEMPTY"}
ErrorOf(code, file) == [type |-> "error", code |-> code, path |-> file]

\* _delete(file): the promise resolves with rimraf's callback argument
\* ({error: null} or {error}), or rejects when rimraf throws in the executor
DeleteSettlements(file) ==
  {[kind |-> "resolved", error |-> Null]}
    \cup {[kind |-> "resolved", error |-> ErrorOf(c, file)] : c \in ErrorCodes}
    \cup {[kind |-> "rejected", error |-> ErrorOf("ERR_ASSERTION", file)]}

InitDelete ==
  /\ fileList \in FileLists
  /\ i = 0 /\ calls = <<>> /\ outcomes = <<>>
  /\ response = Undefined
  /\ error = Null /\ stderr = Null /\ result = Undefined /\ threw = FALSE
  /\ logs = <<>> /\ matched = "none"
  /\ string = Null /\ once = Undefined /\ twice = Undefined
  /\ pc = "ready"

\* entry of deleteFiles up to the first loop test
CallDeleteFiles ==
  /\ pc = "ready"
  /\ IF fileList = Null \/ Len(fileList.items) < 1
       THEN /\ response' = [error |-> Str(noFilesSelected), stderr |-> Null,
                            data |-> Null]
            /\ pc' = "done"
       ELSE /\ response' = response
            /\ pc' = "loop"
  /\ i' = 0
  /\ UNCHANGED <<fileList, calls, outcomes, classifierVars, sanitizerVars>>

\* one iteration that goes on to the next item whatever _delete reported
deleteFilesIterationKeepGoing(settled) ==
  /\ calls' = Append(calls, i)
  /\ outcomes' = Append(outcomes, settled)
  /\ response' = response
  /\ pc' = "loop"
  /\ i' = i + 1

\* one iteration whose awaited _delete settles with `settled`
deleteFilesIteration(settled) ==
  /\ calls' = Append(calls, i)
  /\ outcomes' = Append(outcomes, settled)
  /\ IF settled.kind = "rejected" \/ settled.error # Null
       THEN /\ response' = [error |-> settled.error, stderr |-> Null,
                            data |-> Bool(FALSE)]
            /\ pc' = "done"
            /\ i' = i
       ELSE /\ response' = response
            /\ pc' = "loop"
            /\ i' = i + 1

DeleteNextFile ==
  /\ pc = "loop"
  /\ i < Len(fileList.items)
  /\ \E settled \in DeleteSettlements(fileList.items[i + 1]) :
       deleteFilesIteration(settled)
  /\ UNCHANGED <<fileList, classifierVars, sanitizerVars>>

\* the loop test fails: every item was deleted
ReturnDeleted ==
  /\ pc = "loop"
  /\ ~(i < Len(fileList.items))
  /\ response' = [error |-> Null, stderr |-> Null, data |-> Bool(TRUE)]
  /\ pc' = "done"
  /\ UNCHANGED <<fileList, i, calls, outcomes, classifierVars, sanitizerVars>>

NextDelete == CallDeleteFiles \/ DeleteNextFile \/ ReturnDeleted

SpecDelete == InitDelete /\ [][NextDelete]_vars

\* ------------------------------------------------------------------------
\* Properties of the sanitizer

statFailed == sanitizeFind[2]
errorColon == sanitizeFind[1]

\* string is a text the idempotence statement speaks of
PlainInput ==
  /\ string # Null
  /\ ~startsWithAt(string.chars, errorPrefix, 1)
  /\ ~includes(string.chars, statFailed)

\* the sanitized text holds neither of the substrings the sanitizer removes
CleanOutput ==
  /\ ~includes(once.chars, errorColon)
  /\ ~includes(once.chars, statFailed)

\* C10 as stated: sanitizeErrors(sanitizeErrors(x)) = sanitizeErrors(x) for
\* every string x that does not start with "error: " and does not contain
\* "stat failed:"
C10_Idempotent ==
  (pc = "twice" /\ PlainInput) => twice = once

\* C10 amended: sanitizeErrors(sanitizeErrors(x)) = sanitizeErrors(x) for
\* every string x that does not start with "error: ", does not contain
\* "stat failed:", and whose sanitized text sanitizeErrors(x) contains neither
\* "error:" nor "stat failed:"
C10_IdempotentOnCleanOutput ==
  (pc = "twice" /\ PlainInput /\ CleanOutput) => twice = once

\* C10 witness: a text holding "error:" was sanitized twice, the first pass
\* changed it and left nothing to remove
C10_Witness ==
  /\ pc = "twice"
  /\ PlainInput
  /\ CleanOutput
  /\ includes(string.chars, errorColon)
  /\ once # string
  /\ once.chars # <<>>
  /\ twice = once

\* ------------------------------------------------------------------------
\* Properties of the classifiers

returnedMtp == pc = "mtp"
calledLocal == pc = "local"
returnedLocal == pc = "local" /\ ~threw

\* both arguments are null or the empty string
EmptyInput ==
  /\ error \in {Null, Str(<<>>)}
  /\ stderr \in {Null, Str(<<>>)}

\* text occurs in one of two lower-cased buffers, in any letter case
OccursIn(lowError, lowStderr, text) ==
  \/ includes(lowError, toLowerCase(text))
  \/ includes(lowStderr, toLowerCase(text))

\* text occurs in error or in stderr, in any letter case
Occurs(text) ==
  OccursIn(toLowerCase(stringified(error)), toLowerCase(stringified(stderr)),
           text)

hasStatus == "status" \in DOMAIN result

\* the texts the statements below quote
txtNoMtp ==
  <<"N","o"," ","M","T","P"," ","d","e","v","i","c","e"," ","f","o","u","n","d">>
txtInvalidObjectHandle ==
  <<"i","n","v","a","l","i","d"," ","r","e","s","p","o","n","s","e"," ","c","o","d","e"," ","I","n","v","a","l","i","d","O","b","j","e","c","t","H","a","n","d","l","e">>
txtInvalidStorageID ==
  <<"i","n","v","a","l","i","d"," ","r","e","s","p","o","n","s","e"," ","c","o","d","e"," ","I","n","v","a","l","i","d","S","t","o","r","a","g","e","I","D">>
txtCouldNotFind ==
  <<"c","o","u","l","d"," ","n","o","t"," ","f","i","n","d">>
txtNoFilesSelected ==
  <<"N","o"," ","f","i","l","e","s"," ","s","e","l","e","c","t","e","d">>
txtInvalidPath ==
  <<"I","n","v","a","l","i","d"," ","p","a","t","h">>
txtNoSuchFile ==
  <<"n","o"," ","s","u","c","h"," ","f","i","l","e"," ","o","r"," ","d","i","r","e","c","t","o","r","y">>
txtWritePipe ==
  <<"W","r","i","t","e","P","i","p","e">>
txtMtpStorageNotAccessible ==
  <<"M","T","P"," ","s","t","o","r","a","g","e"," ","n","o","t"," ","a","c","c","e","s","s","i","b","l","e">>
txtStorageNotAccessible ==
  <<"s","t","o","r","a","g","e"," ","n","o","t"," ","a","c","c","e","s","s","i","b","l","e">>
txtErrorStorage ==
  <<"e","r","r","o","r",":"," ","s","t","o","r","a","g","e">>
txtPartialDeletion ==
  <<"P","a","r","t","i","a","l","D","e","l","e","t","i","o","n">>
txtOperationNotPermitted ==
  <<"O","p","e","r","a","t","i","o","n"," ","n","o","t"," ","p","e","r","m","i","t","t","e","d">>
txtPermissionDenied ==
  <<"P","e","r","m","i","s","s","i","o","n"," ","d","e","n","i","e","d">>
txtCommandFailed ==
  <<"C","o","m","m","a","n","d"," ","f","a","i","l","e","d">>
msgNoMtp ==
  <<"N","o"," ","M","T","P"," ","d","e","v","i","c","e"," ","f","o","u","n","d",".">>
msgCommon ==
  <<"O","o","p","s",".","."," ","Y","o","u","r"," ","M","T","P"," ","d","e","v","i","c","e"," ","h","a","s"," ","g","o","n","e"," ","c","r","a","z","y","!"," ","T","r","y"," ","a","g","a","i","n",".">>
msgUnResponsive ==
  <<"M","T","P"," ","d","e","v","i","c","e"," ","i","s"," ","n","o","t"," ","r","e","s","p","o","n","d","i","n","g","."," ","R","e","l","o","a","d"," ","o","r"," ","r","e","c","o","n","n","e","c","t"," ","d","e","v","i","c","e",".">>
msgStorageNotAccessible ==
  <<"M","T","P"," ","s","t","o","r","a","g","e"," ","n","o","t"," ","a","c","c","e","s","s","i","b","l","e",".">>
msgFileNotFound ==
  <<"F","i","l","e"," ","n","o","t"," ","f","o","u","n","d","!"," ","T","r","y"," ","a","g","a","i","n",".">>
msgPathInaccessible ==
  <<"T","h","e"," ","p","a","t","h"," ","i","s"," ","i","n","a","c","c","e","s","s","i","b","l","e",".">>

\* the substring each errorTpl key of processMtpBuffer stands for
patternOf ==
  [ noMtp |-> txtNoMtp,
    invalidObjectHandle |-> txtInvalidObjectHandle,
    invalidStorageID |-> txtInvalidStorageID,
    fileNotFound |-> txtCouldNotFind,
    noFilesSelected |-> txtNoFilesSelected,
    invalidPath |-> txtInvalidPath,
    noSuchFiles |-> txtNoSuchFile,
    writePipe |-> txtWritePipe,
    mtpStorageNotAccessible1 |-> txtMtpStorageNotAccessible,
    mtpStorageNotAccessible2 |-> txtErrorStorage,
    partialDeletion |-> txtPartialDeletion ]

\* keys of processMtpBuffer's errorTpl in the order the object literal
\* declares them
mtpDeclarationOrder ==
  <<"noMtp", "invalidObjectHandle", "invalidStorageID", "fileNotFound",
    "noFilesSelected", "invalidPath", "noSuchFiles", "writePipe",
    "mtpStorageNotAccessible1", "mtpStorageNotAccessible2", "partialDeletion">>

\* the same keys in the order the if/else-if chain tests them
mtpTestOrder ==
  <<"noMtp", "invalidObjectHandle", "invalidStorageID", "writePipe",
    "mtpStorageNotAccessible1", "mtpStorageNotAccessible2", "fileNotFound",
    "noSuchFiles", "noFilesSelected", "invalidPath", "partialDeletion">>

\* first key of order whose substring occurs in the input, else "common"
FirstOccurring(order) ==
  LET lowError == toLowerCase(stringified(error))
      lowStderr == toLowerCase(stringified(stderr))
      hit == {k \in 1..Len(order) :
                OccursIn(lowError, lowStderr, patternOf[order[k]])}
  IN IF hit = {} THEN "common"
     ELSE order[CHOOSE k \in hit : \A j \in hit : k <= j]

\* stderr if non-empty, otherwise error
RawInput ==
  IF stringified(stderr) # <<>> THEN stringified(stderr)
                                ELSE stringified(error)

\* the outcome that belongs to a key of processMtpBuffer's pattern table
mtpOutcome(key) ==
  CASE key = "noMtp" ->
         [error |-> Str(msgNoMtp), throwAlert |-> FALSE, logError |-> FALSE,
          status |-> FALSE]
    [] key \in {"invalidObjectHandle", "invalidStorageID", "writePipe"} ->
         [error |-> Str(msgUnResponsive), throwAlert |-> TRUE,
          logError |-> TRUE, status |-> FALSE]
    [] key \in {"mtpStorageNotAccessible1", "mtpStorageNotAccessible2"} ->
         [error |-> Str(msgStorageNotAccessible), throwAlert |-> TRUE,
          logError |-> TRUE, status |-> FALSE]
    [] key \in {"fileNotFound", "noFilesSelected", "invalidPath"} ->
         [error |-> sanitizeErrors(Str(RawInput)), throwAlert |-> TRUE,
          logError |-> TRUE, status |-> TRUE]
    [] key = "noSuchFiles" ->
         [error |-> Str(msgFileNotFound), throwAlert |-> TRUE,
          logError |-> TRUE, status |-> TRUE]
    [] key = "partialDeletion" ->
         [error |-> Str(msgPathInaccessible), throwAlert |-> TRUE,
          logError |-> TRUE, status |-> TRUE]
    [] OTHER ->
         [error |-> Str(msgCommon), throwAlert |-> TRUE, logError |-> TRUE,
          status |-> TRUE]

\* C1: for every input {error, stderr} of strings or nulls, both
\* processMtpBuffer and processLocalBuffer return a structured result object
\* (error, throwAlert, logError) and never throw
C1_NeverThrows ==
  (returnedMtp \/ calledLocal) =>
    /\ ~threw
    /\ {"error", "throwAlert", "logError"} \subseteq DOMAIN result

\* C2 as stated: on the MTP channel the outcome of a non-empty input is the
\* one of the earliest entry, in errorTpl declaration order, whose substring
\* occurs in error or stderr, and the Common outcome when none occurs
C2_DeclarationOrderWins ==
  (returnedMtp /\ ~EmptyInput) =>
    LET first == FirstOccurring(mtpDeclarationOrder)
    IN result = mtpOutcome(first)

\* C2 amended: on the MTP channel the outcome of a non-empty input is the one
\* of the earliest entry, in the order the if/else-if chain tests them
\* (noMtp, invalidObjectHandle, invalidStorageID, writePipe,
\* mtpStorageNotAccessible1, mtpStorageNotAccessible2, fileNotFound,
\* noSuchFiles, noFilesSelected, invalidPath, partialDeletion), whose
\* substring occurs case-insensitively in error or stderr, and the Common
\* outcome when none occurs
C2_TestOrderWins ==
  (returnedMtp /\ ~EmptyInput) =>
    LET first == FirstOccurring(mtpTestOrder)
    IN /\ matched = first
       /\ result = mtpOutcome(first)

\* C2 witness: "could not find" and "WritePipe" both occur and the call
\* answered with the WritePipe entry's outcome
C2_Witness ==
  /\ returnedMtp
  /\ Occurs(txtCouldNotFind)
  /\ Occurs(txtWritePipe)
  /\ matched = "writePipe"
  /\ result.error = Str(msgUnResponsive)

\* C3: when error and stderr are each null or the empty string, the call
\* returns the channel's silent-success outcome without attempting a match:
\* error null and throwAlert false on both channels, status true on the MTP
\* channel and no status field on the Local channel
C3_SilentSuccess ==
  ((returnedMtp \/ calledLocal) /\ EmptyInput) =>
    /\ ~threw
    /\ result.error = Null
    /\ result.throwAlert = FALSE
    /\ matched = "none"
    /\ logs = <<>>
    /\ returnedMtp => (hasStatus /\ result.status = TRUE)
    /\ calledLocal => ~hasStatus

\* C3 witness: processLocalBuffer returned for {error: null, stderr: ''}
C3_Witness ==
  /\ returnedLocal
  /\ error = Null
  /\ stderr = Str(<<>>)
  /\ result.error = Null
  /\ ~hasStatus

\* the Local branches tested before the NoSuchFile branch
EarlierLocalPattern ==
  \/ Occurs(txtOperationNotPermitted)
  \/ Occurs(txtPermissionDenied)
  \/ Occurs(txtCommandFailed)

\* C4 as stated: on the Local channel every input holding "no such file or
\* directory" in any letter case yields exactly "File not found! Try again."
\* with throwAlert true and logError true, whatever else it holds
C4_NoSuchFileAlways ==
  (calledLocal /\ Occurs(txtNoSuchFile)) =>
    /\ ~threw
    /\ result.error = Str(msgFileNotFound)
    /\ result.throwAlert = TRUE
    /\ result.logError = TRUE

\* C4 amended: on the Local channel every input holding "no such file or
\* directory" in any letter case, and none of "Operation not permitted",
\* "Permission denied" and "Command failed" in any letter case, yields
\* exactly "File not found! Try again." with throwAlert true and logError
\* true
C4_NoSuchFileUnlessEarlier ==
  (calledLocal /\ Occurs(txtNoSuchFile) /\ ~EarlierLocalPattern) =>
    /\ ~threw
    /\ result.error = Str(msgFileNotFound)
    /\ result.throwAlert = TRUE
    /\ result.logError = TRUE

\* C4 witness: a buffer holding "no such file or directory" beside
\* "Invalid path" was answered with the file-not-found message
C4_Witness ==
  /\ returnedLocal
  /\ Occurs(txtNoSuchFile)
  /\ Occurs(txtInvalidPath)
  /\ ~EarlierLocalPattern
  /\ result.error = Str(msgFileNotFound)

\* the MTP branches tested before the storage branch
EarlierMtpPattern ==
  \/ Occurs(txtNoMtp)
  \/ Occurs(txtInvalidObjectHandle)
  \/ Occurs(txtInvalidStorageID)
  \/ Occurs(txtWritePipe)

\* C5 as stated: on the MTP channel every input holding "storage not
\* accessible" or "error: storage" yields exactly
\* "MTP storage not accessible." and status false
C5_StorageAlways ==
  (returnedMtp /\ (Occurs(txtStorageNotAccessible) \/ Occurs(txtErrorStorage)))
    => /\ result.error = Str(msgStorageNotAccessible)
       /\ result.status = FALSE

\* C5 amended: on the MTP channel every input holding
\* "MTP storage not accessible" or "error: storage" in any letter case, and
\* none of "No MTP device found", "invalid response code InvalidObjectHandle",
\* "invalid response code InvalidStorageID" and "WritePipe" in any letter
\* case, yields exactly "MTP storage not accessible." and status false
C5_StorageUnlessEarlier ==
  (/\ returnedMtp
   /\ Occurs(txtMtpStorageNotAccessible) \/ Occurs(txtErrorStorage)
   /\ ~EarlierMtpPattern)
    => /\ result.error = Str(msgStorageNotAccessible)
       /\ result.status = FALSE

\* C5 witness: "error: storage" beside "could not find", answered with the
\* storage message
C5_Witness ==
  /\ returnedMtp
  /\ Occurs(txtErrorStorage)
  /\ Occurs(txtCouldNotFind)
  /\ ~Occurs(txtMtpStorageNotAccessible)
  /\ ~EarlierMtpPattern
  /\ result.error = Str(msgStorageNotAccessible)
  /\ result.status = FALSE

\* C6 as stated: on the MTP channel, when the selected kind is FileNotFound,
\* NoFilesSelected, InvalidPath, PartialDeletion or NoSuchFile, the error
\* message is the sanitizer applied to the raw text (stderr if non-empty,
\* otherwise error) and status is true
C6_SanitizedForFiveKinds ==
  (/\ returnedMtp
   /\ matched \in {"fileNotFound", "noFilesSelected", "invalidPath",
                   "partialDeletion", "noSuchFiles"})
    => /\ result.error = sanitizeErrors(Str(RawInput))
       /\ result.status = TRUE

\* C6 amended: on the MTP channel, when the selected kind is FileNotFound,
\* NoFilesSelected or InvalidPath, the error message is the sanitizer applied
\* to the raw text (stderr if non-empty, otherwise error); when it is
\* NoSuchFile the message is the fixed "File not found! Try again.", when it
\* is PartialDeletion the fixed "The path is inaccessible."; status is true
\* for all five
C6_SanitizedForThreeKinds ==
  /\ (returnedMtp
      /\ matched \in {"fileNotFound", "noFilesSelected", "invalidPath"})
       => /\ result.error = sanitizeErrors(Str(RawInput))
          /\ result.status = TRUE
  /\ (returnedMtp /\ matched = "noSuchFiles")
       => /\ result.error = Str(msgFileNotFound)
          /\ result.status = TRUE
  /\ (returnedMtp /\ matched = "partialDeletion")
       => /\ result.error = Str(msgPathInaccessible)
          /\ result.status = TRUE

\* C6 witness: both buffers are non-empty, the kind is FileNotFound and the
\* message is the sanitized stderr, which differs from stderr itself and
\* from what sanitizing error would give
C6_Witness ==
  /\ returnedMtp
  /\ matched = "fileNotFound"
  /\ stringified(error) # <<>>
  /\ stringified(stderr) # <<>>
  /\ result.error = sanitizeErrors(stderr)
  /\ result.error # stderr
  /\ result.error # sanitizeErrors(error)
  /\ result.status = TRUE

\* C7 as stated: on the Local channel the result has no status field exactly
\* on the silent-success path, and carries status: true on every other path
C7_StatusOnNonSilent ==
  returnedLocal =>
    /\ ~hasStatus <=> EmptyInput
    /\ hasStatus => result.status = TRUE

\* C7 amended: on the Local channel the result carries a status field, with
\* value true, exactly when the NoSuchFile branch is selected; the results of
\* the silent-success, NoPermission and CommandFailed paths have no status
\* field
C7_StatusOnNoSuchFileOnly ==
  returnedLocal =>
    /\ hasStatus <=> matched = "noSuchFiles"
    /\ hasStatus <=> (Occurs(txtNoSuchFile) /\ ~EarlierLocalPattern)
    /\ hasStatus => result.status = TRUE

\* C7 witness: a NoPermission result without a status field
C7_Witness ==
  /\ returnedLocal
  /\ matched = "noPerm2"
  /\ ~EmptyInput
  /\ ~hasStatus

\* the log entry carries the trimmed error and stderr text
LogsTrimmedInput ==
  /\ logs[1].message.error = trim(stringified(error))
  /\ logs[1].message.stderr = trim(stringified(stderr))

\* C8: a call on either channel whose input is not fully empty emits exactly
\* one log entry, holding the trimmed error and stderr text; a call whose
\* error and stderr are both empty or null emits none; on the MTP channel the
\* loud flag is false exactly when "No MTP device found" occurs in the input
\* in any letter case
C8_OneLogEntry ==
  (returnedMtp \/ calledLocal) =>
    /\ EmptyInput => logs = <<>>
    /\ ~EmptyInput => (Len(logs) = 1 /\ LogsTrimmedInput)
    /\ (returnedMtp /\ ~EmptyInput) => (logs[1].loud = ~Occurs(txtNoMtp))
    /\ (calledLocal /\ ~EmptyInput) => "loud" \notin DOMAIN logs[1]

\* C8 witness: an MTP call on a buffer with surrounding white space that
\* holds "No MTP device found" logged once, trimmed, with the loud flag false
C8_Witness ==
  /\ returnedMtp
  /\ Occurs(txtNoMtp)
  /\ Len(logs) = 1
  /\ logs[1].loud = FALSE
  /\ logs[1].message.stderr # stringified(stderr)
  /\ LogsTrimmedInput

\* ------------------------------------------------------------------------
\* Properties of deleteFiles

failed(settled) == settled.kind = "rejected" \/ settled.error # Null

\* the _delete calls so far took the items in index order, one each
InIndexOrder == \A k \in 1..Len(calls) : calls[k] = k - 1

\* no _delete call follows one that reported an error
NothingAfterFailure ==
  \A k \in 1..Len(outcomes) : failed(outcomes[k]) => k = Len(calls)

\* a finished call that met a failure returns that failure alone
ReturnsTheFailure ==
  \A k \in 1..Len(outcomes) :
    (pc = "done" /\ failed(outcomes[k])) =>
      response = [error |-> outcomes[k].error, stderr |-> Null,
                  data |-> Bool(FALSE)]

\* data: true only after every item of a non-empty list was deleted
TrueOnlyWhenAllDeleted ==
  (response # Undefined /\ response.data = Bool(TRUE)) =>
    /\ fileList # Null
    /\ Len(fileList.items) >= 1
    /\ Len(calls) = Len(fileList.items)
    /\ \A k \in 1..Len(outcomes) : ~failed(outcomes[k])

\* C9: deleteFiles deletes the items of fileList one at a time in index
\* order; once the deletion of item i reports an error no item with a greater
\* index is ever deleted and the call returns that single failure as
\* {error, stderr: null, data: false}; it returns data: true only when every
\* item of a non-empty list was deleted without error
C9_FailFast ==
  /\ Len(calls) = Len(outcomes)
  /\ InIndexOrder
  /\ NothingAfterFailure
  /\ ReturnsTheFailure
  /\ TrueOnlyWhenAllDeleted

\* C9 witness: a call on three items finished after the second item's
\* deletion failed, with the third never handed to _delete
C9_Witness ==
  /\ pc = "done"
  /\ fileList # Null
  /\ Len(fileList.items) = 3
  /\ calls = <<0, 1>>
  /\ ~failed(outcomes[1])
  /\ failed(outcomes[2])
  /\ response.data = Bool(FALSE)
  /\ response.error = outcomes[2].error

====
